---- MODULE Spec2Model ----
(***************************************************************************)
(* Model of the HTML-to-PDF generators of this repository:                 *)
(*   generate_pdf_advanced.py  main(): WeasyPrint first, then the          *)
(*                             ReportLab/BeautifulSoup fallback, then the  *)
(*                             manual instructions;                        *)
(*   generate_pdf.py           the pdfkit (wkhtmltopdf) script.            *)
(* One run of one of the two programs is one behaviour.  The environment   *)
(* (which libraries import, whether the input file exists, what the output *)
(* paths hold) is chosen in Init; what an external call does (pip, the     *)
(* backend's conversion, os.path.getsize) is chosen when it is called.     *)
(***************************************************************************)
EXTENDS Integers, Sequences, FiniteSets, TLC

VARIABLES
    script,        \* which program runs: "advanced" or "pdfkit"
    pc,            \* position in the program (source line of the next step)
    inputExists,   \* os.path.exists(html_file)
    weasyLib,      \* what "import weasyprint" does: "present", "absent" (ImportError), "broken" (OSError)
    fontsModule,   \* whether weasyprint.text.fonts imports (newer WeasyPrint releases only)
    rlLib,         \* reportlab and bs4: "present" or "absent"
    pdfkitLib,     \* pdfkit: "present" or "absent"
    pdfMain,       \* content of Top-20-Business-Ideas-Kenya-Africa.pdf
    pdfSimple,     \* content of Top-20-Business-Ideas-Kenya-Africa-Simple.pdf
    pdfMain0,      \* what the two paths held before the run
    pdfSimple0,
    doc,           \* the parsed input document (entries of the HTML report)
    story,         \* the ReportLab story built by generate_pdf_alternative
    installResult, \* return value of install_weasyprint(): "None" before, "True", "False", "Raised"
    weasyResult,   \* return value of generate_pdf_weasyprint()
    altResult,     \* return value of generate_pdf_alternative()
    pdfkitResult,  \* return value of generate_pdf()
    calls,         \* how many times each function or command has been invoked
    callArgs,      \* per backend: <<>> or <<the native options its conversion routine was called with>>
    out            \* the lines printed so far

vars == <<script, pc, inputExists, weasyLib, fontsModule, rlLib, pdfkitLib,
          pdfMain, pdfSimple, pdfMain0, pdfSimple0, doc, story,
          installResult, weasyResult, altResult, pdfkitResult,
          calls, callArgs, out>>

env == <<script, inputExists, fontsModule, pdfMain0, pdfSimple0, doc>>

Backends == {"weasyprint", "reportlab", "pdfkit"}

----------------------------------------------------------------------------
(* Texts are sequences of characters; str.strip() removes the white space  *)
(* at both ends.                                                           *)

IsSpace(c) == c = " "

RECURSIVE LStrip(_)
LStrip(s) ==
    IF s = <<>> THEN <<>>
    ELSE IF IsSpace(Head(s)) THEN LStrip(Tail(s)) ELSE s

RECURSIVE RStrip(_)
RStrip(s) ==
    IF s = <<>> THEN <<>>
    ELSE IF IsSpace(s[Len(s)]) THEN RStrip(SubSeq(s, 1, Len(s) - 1)) ELSE s

Strip(s) == RStrip(LStrip(s))

----------------------------------------------------------------------------
(* The input document as BeautifulSoup sees it: a sequence of div          *)
(* elements.  A div of class business-idea holds its h3 elements and its   *)
(* detail-row divs; a detail-row holds its detail-label and detail-content *)
(* divs.  find() returns the first match or None, modelled as the head of  *)
(* the (possibly empty) sequence of matches.                               *)

T_title1   == <<"S", "o", "l", "a", "r">>
T_title2   == <<" ", "A", "g", "r", "i", " ">>
T_market   == <<"M", "a", "r", "k", "e", "t", ":">>
T_marketSp == <<" ", "M", "a", "r", "k", "e", "t", ":", " ">>
T_cost     == <<"C", "o", "s", "t", ":">>
T_big      == <<"b", "i", "g">>
T_bigSp    == <<" ", "b", "i", "g", " ", " ">>
T_low      == <<"l", "o", "w">>
T_a_b      == <<"a", " ", "b">>

Row(l, c) == [labels |-> l, contents |-> c]

Div(cls, h, r) == [class |-> cls, h3s |-> h, rows |-> r]

SampleElements ==
    { Div("business-idea", <<T_title1>>, <<Row(<<T_market>>, <<T_big>>), Row(<<T_cost>>, <<T_low>>)>>),
      Div("business-idea", <<T_title1>>, <<Row(<<T_cost>>, <<T_a_b>>), Row(<<T_market>>, <<T_low>>)>>),
      Div("business-idea", <<T_title2>>, <<Row(<<T_marketSp>>, <<T_bigSp>>), Row(<<T_cost>>, <<T_low>>)>>),
      Div("business-idea", <<T_market>>, <<Row(<<T_cost>>, <<T_big>>)>>),
      Div("business-idea", <<>>, <<Row(<<>>, <<T_big>>), Row(<<T_cost>>, <<>>), Row(<<T_market>>, <<T_low>>)>>),
      Div("business-idea", <<T_cost>>, <<>>),
      Div("tier", <<T_title1>>, <<>>) }

MaxEntries == 3

RECURSIVE SeqsUpTo(_, _)
SeqsUpTo(S, n) ==
    IF n = 0 THEN {<<>>}
    ELSE LET shorter == SeqsUpTo(S, n - 1)
         IN  shorter \cup {Append(d, e) : d \in shorter, e \in S}

Documents == SeqsUpTo(SampleElements, MaxEntries)

(* The two documents the runs of main() are checked on. *)
RunDocuments ==
    { <<>>,
      << Div("tier", <<T_title1>>, <<>>),
         Div("business-idea", <<T_title2>>, <<Row(<<T_marketSp>>, <<T_bigSp>>), Row(<<T_cost>>, <<T_low>>)>>),
         Div("business-idea", <<T_title1>>, <<Row(<<T_market>>, <<T_big>>), Row(<<T_cost>>, <<T_low>>)>>) >> }

----------------------------------------------------------------------------
(* ReportLab flowables and the extraction loop of generate_pdf_alternative *)

Paragraph(text, style) == [kind |-> "Paragraph", style |-> style, text |-> text, width |-> 0, height |-> 0]

Spacer(w, h) == [kind |-> "Spacer", style |-> "", text |-> <<>>, width |-> w, height |-> h]

ReportTitle == <<"Top 20 Scalable Business Ideas for Kenya & Africa">>

(* f"<b>{label_text}</b> {content_text}" *)
FormatRow(label_text, content_text) ==
    <<"<b>">> \o label_text \o <<"</b>", " ">> \o content_text

TitleFlowables(business_idea) ==
    IF business_idea.h3s # <<>>
    THEN << Paragraph(Strip(Head(business_idea.h3s)), "Heading2"), Spacer(1, 12) >>
    ELSE <<>>

RowFlowables(detail_row) ==
    IF detail_row.labels # <<>> /\ detail_row.contents # <<>>
    THEN << Paragraph(FormatRow(Strip(Head(detail_row.labels)),
                                Strip(Head(detail_row.contents))), "Normal"),
            Spacer(1, 6) >>
    ELSE <<>>

RECURSIVE DetailFlowables(_)
DetailFlowables(rows) ==
    IF rows = <<>> THEN <<>>
    ELSE RowFlowables(Head(rows)) \o DetailFlowables(Tail(rows))

(* EntryFlowables with find() in place of find_all(): only the first detail row *)
EntryFlowablesFirstRowOnly(business_idea) ==
    TitleFlowables(business_idea)
        \o (IF business_idea.rows = <<>> THEN <<>> ELSE RowFlowables(Head(business_idea.rows)))
        \o << Spacer(1, 20) >>

EntryFlowables(business_idea) ==
    TitleFlowables(business_idea) \o DetailFlowables(business_idea.rows) \o << Spacer(1, 20) >>

(* soup.find_all('div', class_='business-idea') *)
FindAllBusinessIdeas(d) == SelectSeq(d, LAMBDA e : e.class = "business-idea")

RECURSIVE ExtractContent(_)
ExtractContent(ideas) ==
    IF ideas = <<>> THEN <<>>
    ELSE EntryFlowables(Head(ideas)) \o ExtractContent(Tail(ideas))

BuildStory(d) ==
    << Paragraph(ReportTitle, "CustomTitle"), Spacer(1, 20) >>
        \o ExtractContent(FindAllBusinessIdeas(d))

----------------------------------------------------------------------------
(* The formatting each backend is given, in the backend's own format.      *)

Length(milli, unit) == [milli |-> milli, unit |-> unit]    \* 0.75in is Length(750, "in")

(* micrometres: 1in = 25400um, 1cm = 10000um *)
ToMicrons(len) ==
    IF len.unit = "in" THEN (len.milli * 254) \div 10
    ELSE IF len.unit = "cm" THEN len.milli * 10
    ELSE len.milli

(* generate_pdf(): the options dict handed to pdfkit.from_file *)
PdfkitOptions ==
    [ page_size        |-> "A4",
      margin_top       |-> Length(750, "in"),
      margin_right     |-> Length(750, "in"),
      margin_bottom    |-> Length(750, "in"),
      margin_left      |-> Length(750, "in"),
      encoding         |-> "UTF-8",
      footer_center    |-> <<"Page ", "[page]", " of ", "[topage]">>,
      footer_font_size |-> 9,
      header_center    |-> "Top 20 Scalable Business Ideas for Kenya & Africa",
      header_font_size |-> 9,
      minimum_font_size |-> 12,
      print_media_type |-> TRUE ]

(* generate_pdf_weasyprint(): the @page rule of the stylesheet handed to write_pdf *)
PdfCss ==
    [ margin        |-> Length(2000, "cm"),
      size          |-> "A4",
      bottom_center |-> [content |-> <<"Page ", "counter(page)", " of ", "counter(pages)">>, font_size |-> 10],
      top_center    |-> [content |-> "Top 20 Scalable Business Ideas for Kenya & Africa", font_size |-> 10] ]

(* generate_pdf_alternative(): SimpleDocTemplate(pdf_file, pagesize=A4) *)
DocTemplateOptions == [pagesize |-> "A4"]

(* The CSS margin shorthand with one value sets all four sides. *)
WeasyMargins(css) ==
    [top |-> css.margin, right |-> css.margin, bottom |-> css.margin, left |-> css.margin]

PdfkitMargins(options) ==
    [top |-> options.margin_top, right |-> options.margin_right,
     bottom |-> options.margin_bottom, left |-> options.margin_left]

----------------------------------------------------------------------------
(* What an external call can do.                                           *)

(* A conversion that writes its output path: it raises before the file is  *)
(* opened, raises after part of it is written, or completes.               *)
WriteOutcomes == {"raise_before_write", "raise_during_write", "ok"}

FileAfterWrite(before, w) ==
    CASE w = "raise_before_write" -> before
      [] w = "raise_during_write" -> "partial"
      [] w = "ok"                 -> "new"

Called(name) == calls' = [calls EXCEPT ![name] = @ + 1]

Emit(lines) == out' = out \o lines

Emitted(line) == \E i \in 1..Len(out) : out[i] = line

----------------------------------------------------------------------------
(* State before a run.                                                     *)

Functions == {"install_weasyprint", "generate_pdf_weasyprint", "generate_pdf_alternative",
              "install_requirements", "generate_pdf",
              "pip_weasyprint", "pip_reportlab", "pip_pdfkit"}

InitRun ==
    /\ inputExists \in BOOLEAN
    /\ weasyLib \in {"present", "absent", "broken"}
    /\ fontsModule \in BOOLEAN
    /\ rlLib \in {"present", "absent"}
    /\ pdfkitLib \in {"present", "absent"}
    /\ pdfMain0 \in {"absent", "old"}
    /\ pdfSimple0 \in {"absent", "old"}
    /\ pdfMain = pdfMain0
    /\ pdfSimple = pdfSimple0
    /\ story = <<>>
    /\ installResult = "None"
    /\ weasyResult = "None"
    /\ altResult = "None"
    /\ pdfkitResult = "None"
    /\ calls = [f \in Functions |-> 0]
    /\ callArgs = [b \in Backends |-> <<>>]
    /\ out = <<>>

Init ==
    /\ script \in {"advanced", "pdfkit"}
    /\ pc = IF script = "advanced" THEN "main_191" ELSE "script_7"
    /\ doc \in RunDocuments
    /\ InitRun

----------------------------------------------------------------------------
(* generate_pdf_advanced.py                                                *)

MainBanner ==
    /\ pc = "main_191"
    /\ Emit(<<"banner">>)
    /\ pc' = "main_195"
    /\ UNCHANGED <<env, weasyLib, rlLib, pdfkitLib, pdfMain, pdfSimple, story,
                   installResult, weasyResult, altResult, pdfkitResult, calls, callArgs>>

(* install_weasyprint(): the import succeeds *)
InstallWeasyprintPresent ==
    /\ pc = "main_195"
    /\ weasyLib = "present"
    /\ Called("install_weasyprint")
    /\ Emit(<<"weasyprint_already_installed">>)
    /\ installResult' = "True"
    /\ pc' = "main_196"
    /\ UNCHANGED <<env, weasyLib, rlLib, pdfkitLib, pdfMain, pdfSimple, story,
                   weasyResult, altResult, pdfkitResult, callArgs>>

(* install_weasyprint(): the import raises something that is no ImportError;
   only ImportError is handled there, and main() has no handler around the call *)
InstallWeasyprintImportRaises ==
    /\ pc = "main_195"
    /\ weasyLib = "broken"
    /\ Called("install_weasyprint")
    /\ installResult' = "Raised"
    /\ pc' = "aborted"
    /\ UNCHANGED <<env, weasyLib, rlLib, pdfkitLib, pdfMain, pdfSimple, story,
                   weasyResult, altResult, pdfkitResult, callArgs, out>>

(* install_weasyprint(): ImportError, pip install, second import *)
InstallWeasyprintInstall ==
    /\ pc = "main_195"
    /\ weasyLib = "absent"
    /\ calls' = [calls EXCEPT !["install_weasyprint"] = @ + 1, !["pip_weasyprint"] = @ + 1]
    /\ \E after \in {"absent", "broken", "present"} :
          /\ weasyLib' = after
          /\ IF after = "present"
             THEN /\ Emit(<<"installing_weasyprint", "weasyprint_installed">>)
                  /\ installResult' = "True"
                  /\ pc' = "main_196"
             ELSE /\ Emit(<<"installing_weasyprint", "failed_to_install_weasyprint">>)
                  /\ installResult' = "False"
                  /\ pc' = "main_201"
    /\ UNCHANGED <<env, rlLib, pdfkitLib, pdfMain, pdfSimple, story,
                   weasyResult, altResult, pdfkitResult, callArgs>>

WeasyReturns(result) ==
    /\ weasyResult' = IF result THEN "True" ELSE "False"
    /\ pc' = IF result THEN "main_197" ELSE "main_201"

(* generate_pdf_weasyprint(): an import inside the try block fails *)
GenerateWeasyImportError ==
    /\ pc = "main_196"
    /\ ~fontsModule
    /\ Called("generate_pdf_weasyprint")
    /\ Emit(<<"weasy_error:ImportError">>)
    /\ WeasyReturns(FALSE)
    /\ UNCHANGED <<env, weasyLib, rlLib, pdfkitLib, pdfMain, pdfSimple, story,
                   installResult, altResult, pdfkitResult, callArgs>>

(* GenerateWeasyMissingInput without the os.path.exists check: write_pdf is
   called on the missing file and raises *)
GenerateWeasyNoExistsCheck ==
    /\ pc = "main_196"
    /\ fontsModule
    /\ ~inputExists
    /\ Called("generate_pdf_weasyprint")
    /\ callArgs' = [callArgs EXCEPT !["weasyprint"] = <<PdfCss>>]
    /\ Emit(<<"converting_weasyprint", "weasy_error:WriteError">>)
    /\ WeasyReturns(FALSE)
    /\ UNCHANGED <<env, weasyLib, rlLib, pdfkitLib, pdfMain, pdfSimple, story,
                   installResult, altResult, pdfkitResult>>

(* generate_pdf_weasyprint(): the HTML file does not exist *)
GenerateWeasyMissingInput ==
    /\ pc = "main_196"
    /\ fontsModule
    /\ ~inputExists
    /\ Called("generate_pdf_weasyprint")
    /\ Emit(<<"html_not_found">>)
    /\ WeasyReturns(FALSE)
    /\ UNCHANGED <<env, weasyLib, rlLib, pdfkitLib, pdfMain, pdfSimple, story,
                   installResult, altResult, pdfkitResult, callArgs>>

(* generate_pdf_weasyprint(): write_pdf, then os.path.getsize *)
GenerateWeasyConvert ==
    /\ pc = "main_196"
    /\ fontsModule
    /\ inputExists
    /\ Called("generate_pdf_weasyprint")
    /\ callArgs' = [callArgs EXCEPT !["weasyprint"] = <<PdfCss>>]
    /\ \E w \in WriteOutcomes, sized \in BOOLEAN :
          /\ pdfMain' = FileAfterWrite(pdfMain, w)
          /\ IF w # "ok"
             THEN /\ Emit(<<"converting_weasyprint", "weasy_error:WriteError">>)
                  /\ WeasyReturns(FALSE)
             ELSE IF sized
             THEN /\ Emit(<<"converting_weasyprint", "pdf_created", "file_size">>)
                  /\ WeasyReturns(TRUE)
             ELSE /\ Emit(<<"converting_weasyprint", "pdf_created", "weasy_error:OSError">>)
                  /\ WeasyReturns(FALSE)
    /\ UNCHANGED <<env, weasyLib, rlLib, pdfkitLib, pdfSimple, story,
                   installResult, altResult, pdfkitResult>>

(* MainWeasySucceeded without the return of line 198: main() falls through *)
MainWeasySucceededNoReturn ==
    /\ pc = "main_197"
    /\ Emit(<<"completed_with_weasyprint">>)
    /\ pc' = "main_201"
    /\ UNCHANGED <<env, weasyLib, rlLib, pdfkitLib, pdfMain, pdfSimple, story,
                   installResult, weasyResult, altResult, pdfkitResult, calls, callArgs>>

(* main(): generate_pdf_weasyprint() returned True *)
MainWeasySucceeded ==
    /\ pc = "main_197"
    /\ Emit(<<"completed_with_weasyprint">>)
    /\ pc' = "done"
    /\ UNCHANGED <<env, weasyLib, rlLib, pdfkitLib, pdfMain, pdfSimple, story,
                   installResult, weasyResult, altResult, pdfkitResult, calls, callArgs>>

(* MainTryAlternative reached without the primary having been tried *)
MainTryAlternativeFirst ==
    /\ pc \in {"main_195", "main_201"}
    /\ Emit(<<"trying_alternative">>)
    /\ Called("pip_reportlab")
    /\ \E installed \in BOOLEAN : rlLib' = IF installed THEN "present" ELSE rlLib
    /\ pc' = "main_204"
    /\ UNCHANGED <<env, weasyLib, pdfkitLib, pdfMain, pdfSimple, story,
                   installResult, weasyResult, altResult, pdfkitResult, callArgs>>

(* main(): the primary was unavailable or failed; pip install the fallback's libraries *)
MainTryAlternative ==
    /\ pc = "main_201"
    /\ Emit(<<"trying_alternative">>)
    /\ Called("pip_reportlab")
    /\ \E installed \in BOOLEAN : rlLib' = IF installed THEN "present" ELSE rlLib
    /\ pc' = "main_204"
    /\ UNCHANGED <<env, weasyLib, pdfkitLib, pdfMain, pdfSimple, story,
                   installResult, weasyResult, altResult, pdfkitResult, callArgs>>

AltReturns(result) ==
    /\ altResult' = IF result THEN "True" ELSE "False"
    /\ pc' = IF result THEN "main_205" ELSE "main_211"

(* generate_pdf_alternative(): reportlab or bs4 does not import *)
GenerateAltImportError ==
    /\ pc = "main_204"
    /\ rlLib = "absent"
    /\ Called("generate_pdf_alternative")
    /\ Emit(<<"alt_error:ImportError">>)
    /\ AltReturns(FALSE)
    /\ UNCHANGED <<env, weasyLib, rlLib, pdfkitLib, pdfMain, pdfSimple, story,
                   installResult, weasyResult, pdfkitResult, callArgs>>

(* generate_pdf_alternative(): open(html_file) raises FileNotFoundError *)
GenerateAltOpenError ==
    /\ pc = "main_204"
    /\ rlLib = "present"
    /\ ~inputExists
    /\ Called("generate_pdf_alternative")
    /\ Emit(<<"using_reportlab", "alt_error:FileNotFoundError">>)
    /\ AltReturns(FALSE)
    /\ UNCHANGED <<env, weasyLib, rlLib, pdfkitLib, pdfMain, pdfSimple, story,
                   installResult, weasyResult, pdfkitResult, callArgs>>

(* generate_pdf_alternative(): parse, build the story, doc.build(story) *)
GenerateAltConvert ==
    /\ pc = "main_204"
    /\ rlLib = "present"
    /\ inputExists
    /\ Called("generate_pdf_alternative")
    /\ story' = BuildStory(doc)
    /\ callArgs' = [callArgs EXCEPT !["reportlab"] = <<DocTemplateOptions>>]
    /\ \E w \in WriteOutcomes :
          /\ pdfSimple' = FileAfterWrite(pdfSimple, w)
          /\ IF w = "ok"
             THEN /\ Emit(<<"using_reportlab", "simple_pdf_created">>)
                  /\ AltReturns(TRUE)
             ELSE /\ Emit(<<"using_reportlab", "alt_error:BuildError">>)
                  /\ AltReturns(FALSE)
    /\ UNCHANGED <<env, weasyLib, rlLib, pdfkitLib, pdfMain,
                   installResult, weasyResult, pdfkitResult>>

(* main(): generate_pdf_alternative() returned True *)
MainAltSucceeded ==
    /\ pc = "main_205"
    /\ Emit(<<"completed_with_alternative">>)
    /\ pc' = "done"
    /\ UNCHANGED <<env, weasyLib, rlLib, pdfkitLib, pdfMain, pdfSimple, story,
                   installResult, weasyResult, altResult, pdfkitResult, calls, callArgs>>

(* main(): everything failed *)
MainManualInstructions ==
    /\ pc = "main_211"
    /\ Emit(<<"automatic_generation_failed", "manual_instructions">>)
    /\ pc' = "done"
    /\ UNCHANGED <<env, weasyLib, rlLib, pdfkitLib, pdfMain, pdfSimple, story,
                   installResult, weasyResult, altResult, pdfkitResult, calls, callArgs>>

----------------------------------------------------------------------------
(* generate_pdf.py                                                         *)

(* line 7, "import pdfkit" at module level: pdfkit imports *)
ScriptImportPdfkit ==
    /\ pc = "script_7"
    /\ pdfkitLib = "present"
    /\ pc' = "script_77"
    /\ UNCHANGED <<env, weasyLib, rlLib, pdfkitLib, pdfMain, pdfSimple, story,
                   installResult, weasyResult, altResult, pdfkitResult, calls, callArgs, out>>

(* line 7: pdfkit is not installed, the module-level import raises ImportError *)
ScriptImportPdfkitFails ==
    /\ pc = "script_7"
    /\ pdfkitLib = "absent"
    /\ pc' = "aborted"
    /\ UNCHANGED <<env, weasyLib, rlLib, pdfkitLib, pdfMain, pdfSimple, story,
                   installResult, weasyResult, altResult, pdfkitResult, calls, callArgs, out>>

(* banner, then install_requirements(); its return value is not used *)
InstallRequirements ==
    /\ pc = "script_77"
    /\ IF pdfkitLib = "present"
       THEN /\ Called("install_requirements")
            /\ Emit(<<"banner", "pdfkit_already_installed">>)
            /\ UNCHANGED pdfkitLib
       ELSE /\ calls' = [calls EXCEPT !["install_requirements"] = @ + 1, !["pip_pdfkit"] = @ + 1]
            /\ Emit(<<"banner", "installing_pdfkit">>)
            /\ \E installed \in BOOLEAN : pdfkitLib' = IF installed THEN "present" ELSE pdfkitLib
    /\ pc' = "script_84"
    /\ UNCHANGED <<env, weasyLib, rlLib, pdfMain, pdfSimple, story,
                   installResult, weasyResult, altResult, pdfkitResult, callArgs>>

PdfkitReturns(result) ==
    /\ pdfkitResult' = IF result THEN "True" ELSE "False"
    /\ pc' = "script_86"

(* generate_pdf(): the HTML file does not exist *)
GeneratePdfMissingInput ==
    /\ pc = "script_84"
    /\ ~inputExists
    /\ Called("generate_pdf")
    /\ Emit(<<"html_not_found">>)
    /\ PdfkitReturns(FALSE)
    /\ UNCHANGED <<env, weasyLib, rlLib, pdfkitLib, pdfMain, pdfSimple, story,
                   installResult, weasyResult, altResult, callArgs>>

(* generate_pdf(): pdfkit.from_file, then os.path.getsize *)
GeneratePdfConvert ==
    /\ pc = "script_84"
    /\ inputExists
    /\ Called("generate_pdf")
    /\ callArgs' = [callArgs EXCEPT !["pdfkit"] = <<PdfkitOptions>>]
    /\ \E w \in WriteOutcomes, sized \in BOOLEAN :
          /\ pdfMain' = FileAfterWrite(pdfMain, w)
          /\ IF w # "ok"
             THEN /\ Emit(<<"converting", "pdfkit_error:WriteError", "wkhtmltopdf_note">>)
                  /\ PdfkitReturns(FALSE)
             ELSE IF sized
             THEN /\ Emit(<<"converting", "pdf_created", "file_size">>)
                  /\ PdfkitReturns(TRUE)
             ELSE /\ Emit(<<"converting", "pdf_created", "pdfkit_error:OSError", "wkhtmltopdf_note">>)
                  /\ PdfkitReturns(FALSE)
    /\ UNCHANGED <<env, weasyLib, rlLib, pdfkitLib, pdfSimple, story,
                   installResult, weasyResult, altResult>>

(* lines 86-90: report the outcome *)
ScriptReport ==
    /\ pc = "script_86"
    /\ IF pdfkitResult = "True"
       THEN Emit(<<"completed", "find_pdf_in_directory">>)
       ELSE Emit(<<"generation_failed">>)
    /\ pc' = "done"
    /\ UNCHANGED <<env, weasyLib, rlLib, pdfkitLib, pdfMain, pdfSimple, story,
                   installResult, weasyResult, altResult, pdfkitResult, calls, callArgs>>

----------------------------------------------------------------------------

Next ==
    \/ MainBanner
    \/ InstallWeasyprintPresent
    \/ InstallWeasyprintImportRaises
    \/ InstallWeasyprintInstall
    \/ GenerateWeasyImportError
    \/ GenerateWeasyMissingInput
    \/ GenerateWeasyConvert
    \/ MainWeasySucceeded
    \/ MainTryAlternative
    \/ GenerateAltImportError
    \/ GenerateAltOpenError
    \/ GenerateAltConvert
    \/ MainAltSucceeded
    \/ MainManualInstructions
    \/ ScriptImportPdfkit
    \/ ScriptImportPdfkitFails
    \/ InstallRequirements
    \/ GeneratePdfMissingInput
    \/ GeneratePdfConvert
    \/ ScriptReport

Spec == Init /\ [][Next]_vars

(* The extraction loop of generate_pdf_alternative applied to a document.  *)
InitExtract ==
    /\ script = "advanced"
    /\ pc = "extract"
    /\ doc \in Documents
    /\ InitRun
    /\ inputExists
    /\ weasyLib = "absent"
    /\ ~fontsModule
    /\ rlLib = "present"
    /\ pdfkitLib = "absent"
    /\ pdfMain0 = "absent"
    /\ pdfSimple0 = "absent"

ExtractStory ==
    /\ pc = "extract"
    /\ story' = BuildStory(doc)
    /\ pc' = "extracted"
    /\ UNCHANGED <<env, weasyLib, rlLib, pdfkitLib, pdfMain, pdfSimple,
                   installResult, weasyResult, altResult, pdfkitResult, calls, callArgs, out>>

NextExtract == ExtractStory

SpecExtract == InitExtract /\ [][NextExtract]_vars

Terminated == pc \in {"done", "aborted"}

----------------------------------------------------------------------------
(* Properties of a run of main() in generate_pdf_advanced.py               *)

AltCalls == calls["generate_pdf_alternative"]

WeasyCalls == calls["generate_pdf_weasyprint"]

PrimaryFailedOrSkipped == installResult = "False" \/ weasyResult = "False"

SomeBackendReturnedTrue == weasyResult = "True" \/ altResult = "True"

OutputsUntouched == pdfMain = pdfMain0 /\ pdfSimple = pdfSimple0

(* C1: short-circuit.  Once install_weasyprint() and generate_pdf_weasyprint()
   have both returned True, main() prints the WeasyPrint success line and
   returns: generate_pdf_alternative() is never called, its pip install never
   runs and the manual instructions are never printed. *)
C1_ShortCircuit ==
    (installResult = "True" /\ weasyResult = "True") =>
        /\ pc \in {"main_197", "done"}
        /\ AltCalls = 0
        /\ altResult = "None"
        /\ calls["pip_reportlab"] = 0
        /\ ~Emitted("trying_alternative")
        /\ ~Emitted("manual_instructions")
        /\ (pc = "done" => Emitted("completed_with_weasyprint"))

C1_Witness ==
    /\ script = "advanced"
    /\ pc = "done"
    /\ installResult = "True"
    /\ weasyResult = "True"

(* C2: fixed-order fallback.  No function of the chain is called more than
   once in a run; generate_pdf_alternative() is called only after the primary
   was unavailable (install_weasyprint() returned False) or its attempt
   returned False; and a finished run has called it exactly once if and only
   if one of those two happened. *)
C2_FixedOrderFallback ==
    /\ calls["install_weasyprint"] <= 1
    /\ WeasyCalls <= 1
    /\ AltCalls <= 1
    /\ calls["pip_reportlab"] <= 1
    /\ (WeasyCalls > 0 => installResult = "True")
    /\ (AltCalls > 0 => PrimaryFailedOrSkipped)
    /\ ((script = "advanced" /\ Terminated) => (AltCalls = 1 <=> PrimaryFailedOrSkipped))

C2_Witness ==
    /\ script = "advanced"
    /\ pc = "done"
    /\ weasyResult = "False"
    /\ AltCalls = 1
    /\ altResult = "True"

(* C3 as stated: when the primary (or its availability check) and the
   fallback have both reported failure, the run ends with the manual
   instructions printed and both output paths holding what they held before
   the run. *)
C3_AllFailedLeavesOutputs ==
    (pc = "done" /\ PrimaryFailedOrSkipped /\ altResult = "False") =>
        /\ Emitted("manual_instructions")
        /\ OutputsUntouched

(* C4 as stated: with the input file missing, every attempt that has
   returned has returned False with the missing-input error reported, its
   conversion routine was not called, and no output path changed. *)
C4_MissingInputAlwaysReported ==
    ~inputExists =>
        /\ (weasyResult # "None" =>
                weasyResult = "False" /\ Emitted("html_not_found") /\ callArgs["weasyprint"] = <<>>)
        /\ (altResult # "None" =>
                altResult = "False" /\ Emitted("alt_error:FileNotFoundError") /\ callArgs["reportlab"] = <<>>)
        /\ (pdfkitResult # "None" =>
                pdfkitResult = "False" /\ Emitted("html_not_found") /\ callArgs["pdfkit"] = <<>>)
        /\ OutputsUntouched

(* C4 as amended: with the input file missing, every attempt that has
   returned has returned False, its conversion routine was not called and no
   output path changed; the error reported is the missing input when the
   backend's imports succeeded and the import error when they did not. *)
C4_MissingInputFails ==
    ~inputExists =>
        /\ (weasyResult # "None" =>
                /\ weasyResult = "False"
                /\ callArgs["weasyprint"] = <<>>
                /\ (fontsModule => Emitted("html_not_found"))
                /\ (~fontsModule => Emitted("weasy_error:ImportError") /\ ~Emitted("html_not_found")))
        /\ (altResult # "None" =>
                /\ altResult = "False"
                /\ callArgs["reportlab"] = <<>>
                /\ story = <<>>
                /\ (rlLib = "present" => Emitted("alt_error:FileNotFoundError"))
                /\ (rlLib = "absent" => Emitted("alt_error:ImportError")
                                        /\ ~Emitted("alt_error:FileNotFoundError")))
        /\ (pdfkitResult # "None" =>
                pdfkitResult = "False" /\ Emitted("html_not_found") /\ callArgs["pdfkit"] = <<>>)
        /\ OutputsUntouched

C4_Witness ==
    /\ ~inputExists
    /\ pc = "done"
    /\ weasyResult = "False"
    /\ altResult = "False"
    /\ Emitted("html_not_found")
    /\ Emitted("alt_error:FileNotFoundError")

(* C5 as stated: install_weasyprint() never raises; whatever the import and
   the installation do, it returns True or False. *)
C5_InstallNeverRaises ==
    calls["install_weasyprint"] > 0 => installResult \in {"True", "False"}

Succeeded == pc = "done" /\ SomeBackendReturnedTrue

AllFailed == pc = "done" /\ Emitted("manual_instructions")

(* C6 as stated: a run of main() that has ended has returned normally, in
   exactly one of the terminal states Succeeded and AllFailed; no exception
   escapes main(). *)
C6_NoAbnormalTermination ==
    (script = "advanced" /\ Terminated) =>
        /\ pc = "done"
        /\ (Succeeded \/ AllFailed)
        /\ ~(Succeeded /\ AllFailed)

(* C7 as stated: for each backend, a library found absent is followed by an
   installation attempt and a re-check, and the conversion attempt is made
   only when the re-check found the library. *)
C7_InstallThenRecheckGates ==
    /\ ((script = "pdfkit" /\ Terminated /\ pdfkitLib = "absent") => calls["pip_pdfkit"] > 0)
    /\ (calls["generate_pdf"] > 0 => pdfkitLib = "present")
    /\ ((script = "advanced" /\ Terminated /\ weasyLib = "absent") => calls["pip_weasyprint"] > 0)
    /\ (WeasyCalls > 0 => weasyLib = "present")
    /\ ((AltCalls > 0 /\ rlLib = "absent") => calls["pip_reportlab"] > 0)
    /\ (callArgs["reportlab"] # <<>> => rlLib = "present")

(* C9 as stated: the stylesheet handed to WeasyPrint carries 0.75in on all
   four sides, the margins pdfkit is given, with the same page size and
   header text. *)
C9_PrimaryMargins ==
    callArgs["weasyprint"] # <<>> =>
        LET css == callArgs["weasyprint"][1]
            m == WeasyMargins(css)
            k == PdfkitMargins(PdfkitOptions)
        IN  /\ \A side \in {"top", "right", "bottom", "left"} :
                  /\ ToMicrons(m[side]) = ToMicrons(Length(750, "in"))
                  /\ ToMicrons(m[side]) = ToMicrons(k[side])
            /\ css.size = PdfkitOptions.page_size
            /\ css.top_center.content = PdfkitOptions.header_center

(* C10 as stated: a run of main() that has ended printed a success line if
   and only if some attempt returned True, the manual instructions if and
   only if none did, never both, and the success line names the backend
   whose attempt returned True, the last one called. *)
C10_ExactlyOneOutcome ==
    (script = "advanced" /\ Terminated) =>
        LET success == Emitted("completed_with_weasyprint") \/ Emitted("completed_with_alternative")
            manual == Emitted("manual_instructions")
        IN  /\ success <=> SomeBackendReturnedTrue
            /\ manual <=> ~SomeBackendReturnedTrue
            /\ ~(success /\ manual)
            /\ (Emitted("completed_with_weasyprint") => weasyResult = "True" /\ AltCalls = 0)
            /\ (Emitted("completed_with_alternative") => altResult = "True")

----------------------------------------------------------------------------
(* Properties of the extraction loop (specification SpecExtract)           *)

EntryBlocks == SelectSeq(doc, LAMBDA e : e.class = "business-idea")

HasTitleAndLabeledRows(e) ==
    /\ e.h3s # <<>>
    /\ \A i \in 1..Len(e.rows) : e.rows[i].labels # <<>> /\ e.rows[i].contents # <<>>

(* t is s without its leading and trailing white space *)
IsTrimOf(t, s) ==
    /\ t = <<>> \/ (t[1] # " " /\ t[Len(t)] # " ")
    /\ \E a \in 0..Len(s) :
          /\ a + Len(t) <= Len(s)
          /\ \A i \in 1..Len(s) :
                IF i <= a \/ i > a + Len(t) THEN s[i] = " " ELSE s[i] = t[i - a]

(* the flowables after the report title and its spacer *)
Body == SubSeq(story, 3, Len(story))

SectionEnds == {i \in 1..Len(Body) : Body[i] = Spacer(1, 20)}

EndOf(j) == CHOOSE i \in SectionEnds : Cardinality({k \in SectionEnds : k <= i}) = j

Section(j) == SubSeq(Body, IF j = 1 THEN 1 ELSE EndOf(j - 1) + 1, EndOf(j) - 1)

(* the paragraph is "<b>" label "</b>" " " content, for some label L and content C
   that satisfy same(L, the row's label) and same(C, the row's content) *)
RowParagraphHolds(p, row, same(_, _)) ==
    /\ p.kind = "Paragraph"
    /\ p.style = "Normal"
    /\ \E n \in 0..Len(p.text) :
          /\ Len(p.text) >= n + 3
          /\ p.text[1] = "<b>"
          /\ p.text[n + 2] = "</b>"
          /\ p.text[n + 3] = " "
          /\ same(SubSeq(p.text, 2, n + 1), Head(row.labels))
          /\ same(SubSeq(p.text, n + 4, Len(p.text)), Head(row.contents))

SectionHolds(sec, e, same(_, _)) ==
    /\ Len(sec) = 2 + 2 * Len(e.rows)
    /\ sec[1].kind = "Paragraph"
    /\ sec[1].style = "Heading2"
    /\ IsTrimOf(sec[1].text, Head(e.h3s))
    /\ sec[2] = Spacer(1, 12)
    /\ \A m \in 1..Len(e.rows) :
          /\ RowParagraphHolds(sec[2 * m + 1], e.rows[m], same)
          /\ sec[2 * m + 2] = Spacer(1, 6)

SectionsHold(same(_, _)) ==
    /\ Len(story) >= 2
    /\ Cardinality(SectionEnds) = Len(EntryBlocks)
    /\ (Body # <<>> => Len(Body) \in SectionEnds)
    /\ \A j \in 1..Len(EntryBlocks) : SectionHolds(Section(j), EntryBlocks[j], same)

Verbatim(t, s) == t = s

ExtractionApplies ==
    /\ pc = "extracted"
    /\ \A j \in 1..Len(EntryBlocks) : HasTitleAndLabeledRows(EntryBlocks[j])

(* C8 as stated: n entry blocks with a title and labeled rows give exactly n
   sections in document order, each the title followed by its rows in order,
   with each label and content text verbatim. *)
C8_SectionsVerbatim == ExtractionApplies => SectionsHold(Verbatim)

(* C8 as amended: n entry blocks with a title and labeled rows give exactly n
   sections in document order, each the title followed by its rows in order,
   with each title, label and content text as in the source except for its
   leading and trailing white space, which is removed. *)
C8_SectionsTrimmed == ExtractionApplies => SectionsHold(IsTrimOf)

C8_Witness ==
    /\ ExtractionApplies
    /\ Len(EntryBlocks) = 3
    /\ \A j \in 1..3 : Len(EntryBlocks[j].rows) = 2
    /\ EntryBlocks[1] # EntryBlocks[2]
    /\ \E j \in 1..3 : Head(EntryBlocks[j].rows[1].labels) = T_marketSp
    /\ Len(story) = 2 + 3 * 7

====
